---- MODULE Spec2Model ----
(***************************************************************************)
(* Order placement, payment settlement and delivery of the products API.   *)
(*                                                                         *)
(* Every request handler is an async function: it runs without             *)
(* interruption from one await to the next, and other handlers run while   *)
(* it waits for the store, the payment provider or the mail gateway.  One  *)
(* action of the model is one such uninterrupted segment together with the *)
(* store operation it waited for.                                          *)
(*                                                                         *)
(* Money is held in cents, so that the decimal prices of the store         *)
(* (50.00, 0.16) are integers.                                            *)
(***************************************************************************)
EXTENDS Integers, Sequences, FiniteSets, TLC

\* ------------------------------------------------------------------ bounds
MaxQty == 2        \* largest quantity a cart line asks for
MaxCartLen == 2    \* largest number of lines in a cart
MaxStock == 2      \* largest initial stock of a product
MaxTime == 2       \* readings of the wall clock: 1..MaxTime
MaxRating == 2     \* largest rating a review gives: 1..MaxRating

\* ------------------------------------------------------- program constants
TaxPercent == 10          \* itemsPrice * 0.1
FreeShippingOver == 10000 \* itemsPrice > 100
FlatShipping == 1000      \* 10

\* ------------------------------------------------------------- identities
Users == {"alice", "bob", "root"}
IsAdmin == [u \in Users |-> u = "root"]
EmailOf == [u \in Users |-> IF u = "alice" THEN "alice@mail"
                          ELSE IF u = "bob" THEN "bob@mail" ELSE "root@mail"]

ProductIds == {"p1", "p2"}
NoProduct == "p0"     \* a well-formed id that no product document carries
InitPrice == [p \in ProductIds |-> IF p = "p1" THEN 5000 ELSE 16]
InitStock == [p \in ProductIds |-> IF p = "p1" THEN MaxStock ELSE 1]
ProductOwner == [p \in ProductIds |-> IF p = "p1" THEN "alice" ELSE "bob"]

None == "none"        \* undefined / null / absent (of a string)
NoDate == 0           \* an unset Date; the clock reads 1..MaxTime
Times == 1..MaxTime
NoPaymentResult == [id |-> None, status |-> None, email_address |-> None]
NoProducts == [p \in {} |-> 0]

\* A product rating is a fraction: the sum of some ratings over their number.
RECURSIVE GCD(_, _)
GCD(a, b) == IF b = 0 THEN a ELSE GCD(b, a % b)

\* The number num/den, in lowest terms.
Ratio(num, den) == [num |-> num \div GCD(num, den), den |-> den \div GCD(num, den)]
NoRating == Ratio(0, 1)

BlankProduct ==
  [user |-> "alice", price |-> 0, countInStock |-> 0,
   reviews |-> <<>>, rating |-> NoRating, numReviews |-> 0]

OrderReqs == {"r1", "r2"}
ReqUser == [r \in OrderReqs |-> IF r = "r1" THEN "alice" ELSE "bob"]

Quantities == 1..MaxQty
Lines == [product : ProductIds \cup {NoProduct}, quantity : Quantities]
Carts == UNION {[1..k -> Lines] : k \in 0..MaxCartLen}
\* The first request sends any cart; the second one, whose part is to race
\* with the first, a cart of one line.
CartsOf == [r \in OrderReqs |-> IF r = "r1" THEN Carts ELSE {c \in Carts : Len(c) = 1}]
\* The cart of the requests that only serve to put orders in the ledger.
PayCarts == {<<[product |-> "p1", quantity |-> 1]>>}

\* Fields of the request body that addOrderItems does not destructure.
\* price 0 and isPaid FALSE stand for a body without these fields.
ForgedBodies == {[price |-> 0, isPaid |-> FALSE], [price |-> 1, isPaid |-> TRUE]}

\* --------------------------------------------------------------- the state
VARIABLES
  products,   \* Product collection: id -> the product document
  orders,     \* Order collection, in insertion order; an order's id is its index
  intents,    \* payment intents created at the provider: a set of [amount, orderId]
  ao,         \* POST /api/orders requests: request -> its position and locals
  wh,         \* POST /api/payment/webhook calls
  dl,         \* PUT /api/orders/:id/deliver requests
  cp,         \* POST /api/payment/create-payment-intent requests
  pu,         \* PUT /api/products/:id requests
  userDocs,   \* User collection: a set of [id, email]
  rv,         \* POST /api/products/:id/reviews requests
  rg,         \* POST /api/auth/register requests
  dp          \* DELETE /api/products/:id requests

vars == <<products, orders, intents, ao, wh, dl, cp, pu, userDocs, rv, rg, dp>>

\* ------------------------------------------------------------ price maths
\* Number(x.toFixed(2)) for x = cents/1000 currency units, given in tenths of
\* a cent: the nearest cent, the larger magnitude when two are equally near.
ToFixed2(tenths) ==
  IF tenths >= 0 THEN (tenths + 5) \div 10 ELSE -((-tenths + 5) \div 10)

TaxPrice(itemsPrice) == ToFixed2((itemsPrice * TaxPercent) \div 10)

ShippingPriceFreeFrom(itemsPrice) == IF itemsPrice >= FreeShippingOver THEN 0 ELSE FlatShipping

ShippingPrice(itemsPrice) == IF itemsPrice > FreeShippingOver THEN 0 ELSE FlatShipping

TotalPrice(itemsPrice) == itemsPrice + TaxPrice(itemsPrice) + ShippingPrice(itemsPrice)

\* ---------------------------------------------------------- addOrderItems
OutOfStockOffByOne(product, item) == product.countInStock + 1 < item.quantity

OutOfStock(product, item) == product.countInStock < item.quantity

LinePriceFromBody(product, item, forged) ==
  IF forged.price # 0 THEN forged.price ELSE product.price

LinePrice(product, item, forged) == product.price

StockUpdateByOne(product, item) == [id |-> product, inc |-> -1]

StockUpdate(product, item) == [id |-> product, inc |-> -item.quantity]

EmptyAcc == [status |-> 0, msg |-> None, items |-> <<>>, itemsPrice |-> 0, bulk |-> <<>>]

\* The loop over orderItems, from line i on, against the fetched products.
RECURSIVE ProcessItems(_, _, _, _, _)
ProcessItems(cart, i, productMap, forged, acc) ==
  IF i > Len(cart) THEN acc
  ELSE LET item == cart[i] IN
    IF item.product \notin DOMAIN productMap
    THEN [acc EXCEPT !.status = 404, !.msg = "not found"]
    ELSE LET product == productMap[item.product] IN
      IF OutOfStock(product, item)
      THEN [acc EXCEPT !.status = 400, !.msg = "out of stock"]
      ELSE ProcessItems(cart, i + 1, productMap, forged,
             [acc EXCEPT
                !.itemsPrice = @ + product.price * item.quantity,
                !.items = Append(@, [product |-> item.product,
                                     quantity |-> item.quantity,
                                     price |-> LinePrice(product, item, forged)]),
                !.bulk = Append(@, StockUpdate(item.product, item))])

NewOrderFromBody(user, v, forged) ==
  [user |-> user, orderItems |-> v.items,
   itemsPrice |-> v.itemsPrice,
   taxPrice |-> TaxPrice(v.itemsPrice),
   shippingPrice |-> ShippingPrice(v.itemsPrice),
   totalPrice |-> TotalPrice(v.itemsPrice),
   isPaid |-> forged.isPaid, paidAt |-> NoDate, paymentResult |-> NoPaymentResult,
   isDelivered |-> FALSE, deliveredAt |-> NoDate]

\* new Order({...}): the fields the handler passes, the schema's defaults for the rest.
NewOrder(user, v, forged) ==
  [user |-> user, orderItems |-> v.items,
   itemsPrice |-> v.itemsPrice,
   taxPrice |-> TaxPrice(v.itemsPrice),
   shippingPrice |-> ShippingPrice(v.itemsPrice),
   totalPrice |-> TotalPrice(v.itemsPrice),
   isPaid |-> FALSE, paidAt |-> NoDate, paymentResult |-> NoPaymentResult,
   isDelivered |-> FALSE, deliveredAt |-> NoDate]

IdleOrderReq ==
  [pc |-> "idle", cart |-> <<>>, forged |-> [price |-> 0, isPaid |-> FALSE],
   seen |-> NoProducts, v |-> EmptyAcc, bulkIdx |-> 0,
   status |-> 0, msg |-> None, order |-> 0, mailed |-> None]

\* The request arrives; an empty cart is refused, otherwise Product.find is issued.
AOStart(r, carts) ==
  /\ ao[r].pc = "idle"
  /\ \E cart \in carts, forged \in ForgedBodies :
       ao' = [ao EXCEPT ![r] =
                IF Len(cart) = 0
                THEN [@ EXCEPT !.pc = "done", !.cart = cart, !.forged = forged,
                               !.status = 400, !.msg = "no order items"]
                ELSE [@ EXCEPT !.pc = "find", !.cart = cart, !.forged = forged]]
  /\ UNCHANGED <<products, orders, intents, wh, dl, cp, pu, userDocs, rv, rg, dp>>

\* Product.find answers; the cart is validated and priced against the answer,
\* and either an error is returned or Product.bulkWrite is issued.
AOFind(r) ==
  /\ ao[r].pc = "find"
  /\ LET ids == {ao[r].cart[i].product : i \in 1..Len(ao[r].cart)} \cap DOMAIN products
         productMap == [p \in ids |-> products[p]]
         v == ProcessItems(ao[r].cart, 1, productMap, ao[r].forged, EmptyAcc)
     IN ao' = [ao EXCEPT ![r] =
                 IF v.status # 0
                 THEN [@ EXCEPT !.pc = "done", !.seen = productMap,
                                !.status = v.status, !.msg = v.msg]
                 ELSE [@ EXCEPT !.pc = "bulk", !.seen = productMap, !.v = v, !.bulkIdx = 1]]
  /\ UNCHANGED <<products, orders, intents, wh, dl, cp, pu, userDocs, rv, rg, dp>>

\* The store applies the next updateOne of the bulk write: an atomic $inc
\* of the document its filter matches, if there is one.
AOBulkOp(r) ==
  /\ ao[r].pc = "bulk"
  /\ LET op == ao[r].v.bulk[ao[r].bulkIdx] IN
       /\ products' = IF op.id \in DOMAIN products
                      THEN [products EXCEPT ![op.id].countInStock = @ + op.inc]
                      ELSE products
       /\ ao' = [ao EXCEPT ![r].bulkIdx = @ + 1,
                           ![r].pc = IF ao[r].bulkIdx = Len(ao[r].v.bulk) THEN "save" ELSE "bulk"]
  /\ UNCHANGED <<orders, intents, wh, dl, cp, pu, userDocs, rv, rg, dp>>

\* order.save(): the schema validation of shippingAddress and paymentMethod
\* (which the body carried, and nothing read before), then the insert.
AOSave(r) ==
  /\ ao[r].pc = "save"
  /\ \E addressOk \in BOOLEAN :
       IF addressOk
       THEN /\ orders' = Append(orders, NewOrder(ReqUser[r], ao[r].v, ao[r].forged))
            /\ ao' = [ao EXCEPT ![r].pc = "email", ![r].order = Len(orders) + 1]
       ELSE /\ ao' = [ao EXCEPT ![r].pc = "done", ![r].status = 500,
                                ![r].msg = "validation failed"]
            /\ UNCHANGED orders
  /\ UNCHANGED <<products, intents, wh, dl, cp, pu, userDocs, rv, rg, dp>>

AOEmailSurfaced(r) ==
  /\ ao[r].pc = "email"
  /\ \E sent \in BOOLEAN :
       ao' = [ao EXCEPT ![r].pc = "done",
                        ![r].status = IF sent THEN 201 ELSE 500,
                        ![r].msg = IF sent THEN "created" ELSE "email failed",
                        ![r].mailed = IF sent THEN EmailOf[ReqUser[r]] ELSE None]
  /\ UNCHANGED <<products, orders, intents, wh, dl, cp, pu, userDocs, rv, rg, dp>>

\* sendEmail resolves or rejects; either way the order is answered with 201.
AOEmail(r) ==
  /\ ao[r].pc = "email"
  /\ \E sent \in BOOLEAN :
       ao' = [ao EXCEPT ![r].pc = "done", ![r].status = 201, ![r].msg = "created",
                        ![r].mailed = IF sent THEN EmailOf[ReqUser[r]] ELSE None]
  /\ UNCHANGED <<products, orders, intents, wh, dl, cp, pu, userDocs, rv, rg, dp>>

\* ------------------------------------------------------------ document.save
SaveWholeDoc(stored, loaded, doc) == doc

\* save() of a loaded document sends the paths whose value was changed since
\* the load, and leaves every other path of the stored document alone.
SaveDoc(stored, loaded, doc) ==
  [f \in DOMAIN doc |-> IF doc[f] # loaded[f] THEN doc[f] ELSE stored[f]]

BlankOrder == NewOrder("alice", EmptyAcc, [price |-> 0, isPaid |-> FALSE])

\* ----------------------------------------------------------- stripeWebhook
EventTypes == {"payment_intent.succeeded", "charge.refunded"}
ReceiptEmails == {None, "payer@mail"}
\* metadata.orderId of the event: 0 when the metadata carries none
EventOrderIds == 0..Cardinality(OrderReqs) + 1
Succeeded == [type : {"payment_intent.succeeded"}, id : {"pi_1"}, status : {"succeeded"},
              orderId : EventOrderIds, receipt_email : ReceiptEmails]
Refunded == [type |-> "charge.refunded", id |-> "ch_1", status |-> "succeeded",
             orderId |-> 1, receipt_email |-> None]
Events == Succeeded \cup {Refunded}
NoEvent == [type |-> None, id |-> None, status |-> None, orderId |-> 0, receipt_email |-> None]

IdleWebhook ==
  [pc |-> "idle", verified |-> FALSE, event |-> NoEvent, loaded |-> BlankOrder,
   paidAt |-> NoDate, status |-> 0, outcome |-> None, mailed |-> None]

PaidOrderNoFallback(order, event, now) ==
  [order EXCEPT
     !.isPaid = TRUE,
     !.paidAt = now,
     !.paymentResult = [id |-> event.id, status |-> event.status,
                        email_address |-> event.receipt_email]]

PaidOrderToggle(order, event, now) ==
  [order EXCEPT
     !.isPaid = ~order.isPaid,
     !.paidAt = IF order.isPaid THEN NoDate ELSE now,
     !.paymentResult = [id |-> event.id, status |-> event.status,
                        email_address |-> IF event.receipt_email # None
                                          THEN event.receipt_email
                                          ELSE EmailOf[order.user]]]

PaidOrderRepriced(order, event, now) ==
  [order EXCEPT
     !.isPaid = TRUE,
     !.paidAt = now,
     !.paymentResult = [id |-> event.id, status |-> event.status,
                        email_address |-> IF event.receipt_email # None
                                          THEN event.receipt_email
                                          ELSE EmailOf[order.user]],
     !.orderItems = [i \in 1..Len(order.orderItems) |->
                       [order.orderItems[i] EXCEPT
                          !.price = IF order.orderItems[i].product \in DOMAIN products
                                    THEN products[order.orderItems[i].product].price
                                    ELSE 0]]]

\* What the handler assigns to the loaded order before saving it.
PaidOrder(order, event, now) ==
  [order EXCEPT
     !.isPaid = TRUE,
     !.paidAt = now,
     !.paymentResult = [id |-> event.id, status |-> event.status,
                        email_address |-> IF event.receipt_email # None
                                          THEN event.receipt_email
                                          ELSE EmailOf[order.user]]]

WHRejectFallThrough(w) ==
  /\ wh[w].pc = "idle"
  /\ \E event \in Succeeded :
       wh' = [wh EXCEPT ![w] = [@ EXCEPT !.pc = IF event.orderId # 0 THEN "find" ELSE "done",
                                         !.event = event, !.status = 400,
                                         !.outcome = "bad signature"]]
  /\ UNCHANGED <<products, orders, intents, ao, dl, cp, pu, userDocs, rv, rg, dp>>

\* constructEvent throws: 400, nothing else happens.
WHReject(w) ==
  /\ wh[w].pc = "idle"
  /\ wh' = [wh EXCEPT ![w].pc = "done", ![w].status = 400, ![w].outcome = "bad signature"]
  /\ UNCHANGED <<products, orders, intents, ao, dl, cp, pu, userDocs, rv, rg, dp>>

\* constructEvent returns the event; an event of another type, or one without
\* an order id, is acknowledged at once; otherwise Order.findById is issued.
WHAccept(w, events) ==
  /\ wh[w].pc = "idle"
  /\ \E event \in events :
       wh' = [wh EXCEPT ![w] =
                IF event.type = "payment_intent.succeeded" /\ event.orderId # 0
                THEN [@ EXCEPT !.pc = "find", !.verified = TRUE, !.event = event]
                ELSE [@ EXCEPT !.pc = "done", !.verified = TRUE, !.event = event,
                               !.status = 200, !.outcome = "ignored"]]
  /\ UNCHANGED <<products, orders, intents, ao, dl, cp, pu, userDocs, rv, rg, dp>>

\* findById answers (or throws); a found order is marked paid and save is issued.
WHFind(w) ==
  /\ wh[w].pc = "find"
  /\ \/ \E now \in Times :
          wh' = [wh EXCEPT ![w] =
                   IF wh[w].event.orderId \in 1..Len(orders)
                   THEN [@ EXCEPT !.pc = "save", !.loaded = orders[wh[w].event.orderId],
                                  !.paidAt = now]
                   ELSE [@ EXCEPT !.pc = "done", !.status = 200, !.outcome = "order not found"]]
     \/ wh' = [wh EXCEPT ![w].pc = "done", ![w].status = 200, ![w].outcome = "store error"]
  /\ UNCHANGED <<products, orders, intents, ao, dl, cp, pu, userDocs, rv, rg, dp>>

WHSaveUncaught(w) ==
  /\ wh[w].pc = "save"
  /\ \/ /\ orders' = [orders EXCEPT ![wh[w].event.orderId] =
                        SaveDoc(@, wh[w].loaded,
                                PaidOrder(wh[w].loaded, wh[w].event, wh[w].paidAt))]
        /\ wh' = [wh EXCEPT ![w].pc = "email", ![w].outcome = "paid"]
     \/ /\ wh' = [wh EXCEPT ![w].pc = "done", ![w].status = 500, ![w].outcome = "store error"]
        /\ UNCHANGED orders
  /\ UNCHANGED <<products, intents, ao, dl, cp, pu, userDocs, rv, rg, dp>>

\* order.save() answers (or throws).
WHSave(w) ==
  /\ wh[w].pc = "save"
  /\ \/ /\ orders' = [orders EXCEPT ![wh[w].event.orderId] =
                        SaveDoc(@, wh[w].loaded,
                                PaidOrder(wh[w].loaded, wh[w].event, wh[w].paidAt))]
        /\ wh' = [wh EXCEPT ![w].pc = "email", ![w].outcome = "paid"]
     \/ /\ wh' = [wh EXCEPT ![w].pc = "done", ![w].status = 200, ![w].outcome = "store error"]
        /\ UNCHANGED orders
  /\ UNCHANGED <<products, intents, ao, dl, cp, pu, userDocs, rv, rg, dp>>

\* The payment-confirmed email resolves or rejects; the call is acknowledged.
WHEmail(w) ==
  /\ wh[w].pc = "email"
  /\ \E sent \in BOOLEAN :
       wh' = [wh EXCEPT ![w].pc = "done", ![w].status = 200,
                        ![w].mailed = IF sent THEN EmailOf[wh[w].loaded.user] ELSE None]
  /\ UNCHANGED <<products, orders, intents, ao, dl, cp, pu, userDocs, rv, rg, dp>>

\* -------------------------------------------------- updateOrderToDelivered
IdleDeliver ==
  [pc |-> "idle", actor |-> "root", orderId |-> 0, loaded |-> BlankOrder,
   deliveredAt |-> NoDate, status |-> 0, mailed |-> None]

adminAllowsAll(user) == TRUE

\* The admin middleware: req.user && req.user.isAdmin
admin(user) == user \in Users /\ IsAdmin[user]

\* The admin middleware, then Order.findById is issued.
DLStart(d, actors, ids) ==
  /\ dl[d].pc = "idle"
  /\ \E actor \in actors, id \in ids :
       dl' = [dl EXCEPT ![d] =
                IF admin(actor)
                THEN [@ EXCEPT !.pc = "find", !.actor = actor, !.orderId = id]
                ELSE [@ EXCEPT !.pc = "done", !.actor = actor, !.orderId = id, !.status = 401]]
  /\ UNCHANGED <<products, orders, intents, ao, wh, cp, pu, userDocs, rv, rg, dp>>

DLFind(d) ==
  /\ dl[d].pc = "find"
  /\ \E now \in Times :
       dl' = [dl EXCEPT ![d] =
                IF dl[d].orderId \in 1..Len(orders)
                THEN [@ EXCEPT !.pc = "save", !.loaded = orders[dl[d].orderId],
                               !.deliveredAt = now]
                ELSE [@ EXCEPT !.pc = "done", !.status = 404]]
  /\ UNCHANGED <<products, orders, intents, ao, wh, cp, pu, userDocs, rv, rg, dp>>

DLSave(d) ==
  /\ dl[d].pc = "save"
  /\ orders' = [orders EXCEPT ![dl[d].orderId] =
                  SaveDoc(@, dl[d].loaded,
                          [dl[d].loaded EXCEPT !.isDelivered = TRUE,
                                               !.deliveredAt = dl[d].deliveredAt])]
  /\ dl' = [dl EXCEPT ![d].pc = "email"]
  /\ UNCHANGED <<products, intents, ao, wh, cp, pu, userDocs, rv, rg, dp>>

DLEmail(d) ==
  /\ dl[d].pc = "email"
  /\ \E sent \in BOOLEAN :
       dl' = [dl EXCEPT ![d].pc = "done", ![d].status = 200,
                        ![d].mailed = IF sent THEN EmailOf[dl[d].actor] ELSE None]
  /\ UNCHANGED <<products, orders, intents, ao, wh, cp, pu, userDocs, rv, rg, dp>>

\* ----------------------------------------------------- createPaymentIntent
\* Math.round(totalPrice * 100), for a totalPrice of so many hundredths of the
\* currency unit: the product in ten-thousandths, to the nearest whole.
AmountToCharge(totalPrice) == (totalPrice * 100 + 50) \div 100

IntentParamsFromBody(order, orderId, body) ==
  [amount |-> IF body.amount # 0 THEN body.amount ELSE AmountToCharge(order.totalPrice),
   orderId |-> orderId]

\* The arguments of stripe.paymentIntents.create: the amount and the metadata.
IntentParams(order, orderId, body) ==
  [amount |-> AmountToCharge(order.totalPrice), orderId |-> orderId]

NotOwnerNever(order, actor) == FALSE

\* order.user.toString() !== req.user._id.toString()
NotOwner(order, actor) == order.user # actor

\* Fields of the request body that createPaymentIntent does not destructure;
\* amount 0 stands for a body without the field.
IntentBodies == {[amount |-> 0], [amount |-> 1]}

IdleIntent ==
  [pc |-> "idle", actor |-> "alice", orderId |-> 0, body |-> [amount |-> 0],
   params |-> [amount |-> 0, orderId |-> 0], status |-> 0, msg |-> None]

\* The body is read (orderId 0: a body without one); findById is issued.
CPStart(c, actors, ids, bodies) ==
  /\ cp[c].pc = "idle"
  /\ \E actor \in actors, id \in ids, body \in bodies :
       cp' = [cp EXCEPT ![c] =
                IF id = 0
                THEN [@ EXCEPT !.pc = "done", !.actor = actor, !.body = body,
                               !.status = 400, !.msg = "Order ID is required"]
                ELSE [@ EXCEPT !.pc = "find", !.actor = actor, !.body = body,
                               !.orderId = id]]
  /\ UNCHANGED <<products, orders, intents, ao, wh, dl, pu, userDocs, rv, rg, dp>>

\* findById answers; a missing order and an order of another user are
\* refused, otherwise stripe.paymentIntents.create is issued.
CPFind(c) ==
  /\ cp[c].pc = "find"
  /\ cp' = [cp EXCEPT ![c] =
              IF cp[c].orderId \notin 1..Len(orders)
              THEN [@ EXCEPT !.pc = "done", !.status = 404, !.msg = "Order not found"]
              ELSE IF NotOwner(orders[cp[c].orderId], cp[c].actor)
              THEN [@ EXCEPT !.pc = "done", !.status = 401,
                             !.msg = "Not authorized to pay for this order"]
              ELSE [@ EXCEPT !.pc = "create",
                             !.params = IntentParams(orders[cp[c].orderId],
                                                     cp[c].orderId, cp[c].body)]]
  /\ UNCHANGED <<products, orders, intents, ao, wh, dl, pu, userDocs, rv, rg, dp>>

\* stripe.paymentIntents.create answers or throws.
CPCreate(c) ==
  /\ cp[c].pc = "create"
  /\ \/ /\ intents' = intents \cup {cp[c].params}
        /\ cp' = [cp EXCEPT ![c].pc = "done", ![c].status = 200]
     \/ /\ cp' = [cp EXCEPT ![c].pc = "done", ![c].status = 500,
                            ![c].msg = "provider error"]
        /\ UNCHANGED intents
  /\ UNCHANGED <<products, orders, ao, wh, dl, pu, userDocs, rv, rg, dp>>

\* ----------------------------------------------------------- updateProduct
\* A field that the body of a PUT does not carry.
Absent == -1

IdleUpdate ==
  [pc |-> "idle", actor |-> "alice", product |-> "p1",
   body |-> [price |-> Absent, countInStock |-> Absent],
   loaded |-> BlankProduct, status |-> 0, msg |-> None]

\* x || product.x: the old value for a field that is absent, and for one that is 0
OrElse(x, old) == IF x = Absent \/ x = 0 THEN old ELSE x

PUStart(u, actors, pids, prices, stocks) ==
  /\ pu[u].pc = "idle"
  /\ \E actor \in actors, p \in pids, price \in prices, stock \in stocks :
       pu' = [pu EXCEPT ![u] = [@ EXCEPT !.pc = "find", !.actor = actor, !.product = p,
                                         !.body = [price |-> price, countInStock |-> stock]]]
  /\ UNCHANGED <<products, orders, intents, ao, wh, dl, cp, userDocs, rv, rg, dp>>

NotEntitledUnlessOwner(product, actor) == product.user # actor

\* product.user.toString() !== req.user._id.toString() && !req.user.isAdmin
NotEntitled(product, actor) == product.user # actor /\ ~IsAdmin[actor]

\* findById answers: no product, a caller who may not edit it, or the
\* assignments and the save.
PUFind(u) ==
  /\ pu[u].pc = "find"
  /\ pu' = [pu EXCEPT ![u] =
              IF pu[u].product \notin DOMAIN products
              THEN [@ EXCEPT !.pc = "done", !.status = 404, !.msg = "Product not found"]
              ELSE IF NotEntitled(products[pu[u].product], pu[u].actor)
              THEN [@ EXCEPT !.pc = "done", !.status = 401,
                             !.msg = "Not authorized to edit this product"]
              ELSE [@ EXCEPT !.pc = "save", !.loaded = products[pu[u].product]]]
  /\ UNCHANGED <<products, orders, intents, ao, wh, dl, cp, userDocs, rv, rg, dp>>

\* product.save() answers, or throws because the document is gone.
PUSave(u) ==
  /\ pu[u].pc = "save"
  /\ IF pu[u].product \in DOMAIN products
     THEN /\ products' = [products EXCEPT ![pu[u].product] =
                            SaveDoc(@, pu[u].loaded,
                                    [pu[u].loaded EXCEPT
                                       !.price = OrElse(pu[u].body.price, @),
                                       !.countInStock = OrElse(pu[u].body.countInStock, @)])]
          /\ pu' = [pu EXCEPT ![u].pc = "done", ![u].status = 200,
                              ![u].msg = "Product updated successfully"]
     ELSE /\ pu' = [pu EXCEPT ![u].pc = "done", ![u].status = 500,
                              ![u].msg = "document not found"]
          /\ UNCHANGED products
  /\ UNCHANGED <<orders, intents, ao, wh, dl, cp, userDocs, rv, rg, dp>>

\* ----------------------------------------------------------- deleteProduct
IdleDelete == [pc |-> "idle", actor |-> "root", product |-> NoProduct, status |-> 0]

\* The admin middleware, then Product.findById is issued.
DPStart(x, actors, pids) ==
  /\ dp[x].pc = "idle"
  /\ \E actor \in actors, p \in pids :
       dp' = [dp EXCEPT ![x] =
                IF admin(actor)
                THEN [@ EXCEPT !.pc = "find", !.actor = actor, !.product = p]
                ELSE [@ EXCEPT !.pc = "done", !.actor = actor, !.product = p, !.status = 401]]
  /\ UNCHANGED <<products, orders, intents, ao, wh, dl, cp, pu, userDocs, rv, rg>>

\* findById answers; for a product found, deleteOne is issued.
DPFind(x) ==
  /\ dp[x].pc = "find"
  /\ dp' = [dp EXCEPT ![x] =
              IF dp[x].product \in DOMAIN products
              THEN [@ EXCEPT !.pc = "delete"]
              ELSE [@ EXCEPT !.pc = "done", !.status = 404]]
  /\ UNCHANGED <<products, orders, intents, ao, wh, dl, cp, pu, userDocs, rv, rg>>

\* The store removes the document, if it is still there.
DPDelete(x) ==
  /\ dp[x].pc = "delete"
  /\ products' = [p \in DOMAIN products \ {dp[x].product} |-> products[p]]
  /\ dp' = [dp EXCEPT ![x].pc = "done", ![x].status = 200]
  /\ UNCHANGED <<orders, intents, ao, wh, dl, cp, pu, userDocs, rv, rg>>

\* ------------------------------------------------------------- the guard
NoUser == "nobody"    \* req.user when User.findById found no document: null
GhostId == "ghost"    \* a well-formed user id that no user document carries

\* What the request carries as its token: nothing, a token that jwt.verify
\* refuses (bad signature, expired), or a token signed for a user id.
NoToken == [kind |-> "absent", id |-> None]
BadToken == [kind |-> "invalid", id |-> None]
SignedTokens == [kind : {"signed"}, id : Users \cup {GhostId}]
Tokens == {NoToken, BadToken} \cup SignedTokens

\* User.findById(decoded.id): the id of the document found, or NoUser.
Resolve(docs, id) == IF \E u \in docs : u.id = id THEN id ELSE NoUser

\* ----------------------------------------------------- createProductReview
Ratings == 1..MaxRating

\* reviews.reduce((acc, item) => item.rating + acc, 0)
RECURSIVE SumRatings(_, _)
SumRatings(reviews, n) ==
  IF n = 0 THEN 0 ELSE reviews[n].rating + SumRatings(reviews, n - 1)

\* product.reviews.find(r => r.user.toString() === req.user._id.toString())
AlreadyReviewed(product, user) ==
  \E i \in 1..Len(product.reviews) : product.reviews[i].user = user

\* The loaded product after the push and the two assignments.
Reviewed(product, user, rating) ==
  LET reviews == Append(product.reviews, [user |-> user, rating |-> rating])
  IN [product EXCEPT !.reviews = reviews,
                     !.numReviews = Len(reviews),
                     !.rating = Ratio(SumRatings(reviews, Len(reviews)), Len(reviews))]

\* save() of a document whose array was pushed to: the pushed elements are
\* appended to the stored array ($push), the other changed paths are set.
PushSave(stored, loaded, doc) ==
  [SaveDoc(stored, loaded, doc) EXCEPT
     !.reviews = stored.reviews \o SubSeq(doc.reviews, Len(loaded.reviews) + 1,
                                          Len(doc.reviews))]

IdleReview ==
  [pc |-> "idle", token |-> NoToken, actor |-> NoUser, product |-> NoProduct,
   rating |-> 0, ran |-> FALSE, loaded |-> BlankProduct, doc |-> BlankProduct,
   status |-> 0, msg |-> None]

\* protect: the token is taken from the header or the cookie and verified; a
\* request without a token, or with one that does not verify, is answered
\* 401; otherwise User.findById is issued.
RVProtect(v, tokens, pids) ==
  /\ rv[v].pc = "idle"
  /\ \E token \in tokens, p \in pids, rating \in Ratings :
       rv' = [rv EXCEPT ![v] =
                IF token.kind = "absent"
                THEN [@ EXCEPT !.pc = "done", !.token = token, !.product = p,
                               !.rating = rating, !.status = 401,
                               !.msg = "Not authorized, no token"]
                ELSE IF token.kind = "invalid"
                THEN [@ EXCEPT !.pc = "done", !.token = token, !.product = p,
                               !.rating = rating, !.status = 401,
                               !.msg = "Not authorized, token failed"]
                ELSE [@ EXCEPT !.pc = "lookup", !.token = token, !.product = p,
                               !.rating = rating]]
  /\ UNCHANGED <<products, orders, intents, ao, wh, dl, cp, pu, userDocs, rg, dp>>

\* User.findById answers; its answer becomes req.user and next() starts the
\* handler, which reads the body and issues Product.findById.
RVLookup(v) ==
  /\ rv[v].pc = "lookup"
  /\ rv' = [rv EXCEPT ![v].pc = "find", ![v].ran = TRUE,
                      ![v].actor = Resolve(userDocs, rv[v].token.id)]
  /\ UNCHANGED <<products, orders, intents, ao, wh, dl, cp, pu, userDocs, rg, dp>>

\* Product.findById answers.  Reading _id or username of a req.user that is
\* null throws, and the handler's catch answers 500.
RVFind(v) ==
  /\ rv[v].pc = "find"
  /\ rv' = [rv EXCEPT ![v] =
              IF rv[v].product \notin DOMAIN products
              THEN [@ EXCEPT !.pc = "done", !.status = 404, !.msg = "Product not found"]
              ELSE IF rv[v].actor = NoUser
              THEN [@ EXCEPT !.pc = "done", !.status = 500, !.msg = "TypeError"]
              ELSE IF AlreadyReviewed(products[rv[v].product], rv[v].actor)
              THEN [@ EXCEPT !.pc = "done", !.status = 400,
                             !.msg = "Product already reviewed by this user"]
              ELSE [@ EXCEPT !.pc = "save", !.loaded = products[rv[v].product],
                             !.doc = Reviewed(products[rv[v].product], rv[v].actor,
                                              rv[v].rating)]]
  /\ UNCHANGED <<products, orders, intents, ao, wh, dl, cp, pu, userDocs, rg, dp>>

\* product.save() answers or throws.
RVSave(v) ==
  /\ rv[v].pc = "save"
  /\ \/ /\ rv[v].product \in DOMAIN products
        /\ products' = [products EXCEPT ![rv[v].product] =
                          PushSave(@, rv[v].loaded, rv[v].doc)]
        /\ rv' = [rv EXCEPT ![v].pc = "done", ![v].status = 201, ![v].msg = "Review added"]
     \/ /\ rv' = [rv EXCEPT ![v].pc = "done", ![v].status = 500, ![v].msg = "store error"]
        /\ UNCHANGED products
  /\ UNCHANGED <<orders, intents, ao, wh, dl, cp, pu, userDocs, rg, dp>>

\* ----------------------------------------------------------------- register
\* The email of the request body; None: a body without one.
BodyEmails == {None, "alice@mail", "ALICE@mail", "carol@mail", "Carol@mail"}
\* The password of the request body; None: a body without one.
BodyPasswords == {None, "secret1"}

\* String.prototype.toLowerCase, on the emails at hand
Lower(e) ==
  CASE e = "ALICE@mail" -> "alice@mail"
    [] e = "Carol@mail" -> "carol@mail"
    [] OTHER -> e

\* The schema's lowercase setter, which runs on documents and on query filters.
EmailSetter(e) == IF e = None THEN None ELSE Lower(e)

DuplicateKeyNever(docs, email) == FALSE

\* The unique index on email refuses the insert.
DuplicateKey(docs, email) == \E u \in docs : u.email = email

\* The validation of create(): email and password are required.
Invalid(body) == body.email = None \/ body.password = None

IdleRegister ==
  [pc |-> "idle", body |-> [email |-> None, password |-> None],
   status |-> 0, msg |-> None]

\* The body is read; User.findOne({ email }) is issued.
RGStart(g, emails, passwords) ==
  /\ rg[g].pc = "idle"
  /\ \E email \in emails, password \in passwords :
       rg' = [rg EXCEPT ![g].pc = "find",
                        ![g].body = [email |-> email, password |-> password]]
  /\ UNCHANGED <<products, orders, intents, ao, wh, dl, cp, pu, userDocs, rv, dp>>

\* findOne answers; an email on file is refused, otherwise User.create is issued.
RGFind(g) ==
  /\ rg[g].pc = "find"
  /\ rg' = [rg EXCEPT ![g] =
              IF \E u \in userDocs : u.email = EmailSetter(rg[g].body.email)
              THEN [@ EXCEPT !.pc = "done", !.status = 400, !.msg = "User already exists"]
              ELSE [@ EXCEPT !.pc = "create"]]
  /\ UNCHANGED <<products, orders, intents, ao, wh, dl, cp, pu, userDocs, rv, dp>>

\* User.create validates and inserts, or throws; the catch answers 500.
RGCreate(g) ==
  /\ rg[g].pc = "create"
  /\ IF Invalid(rg[g].body)
     THEN /\ rg' = [rg EXCEPT ![g].pc = "done", ![g].status = 500,
                              ![g].msg = "User validation failed"]
          /\ UNCHANGED userDocs
     ELSE IF DuplicateKey(userDocs, EmailSetter(rg[g].body.email))
     THEN /\ rg' = [rg EXCEPT ![g].pc = "done", ![g].status = 500,
                              ![g].msg = "duplicate key"]
          /\ UNCHANGED userDocs
     ELSE /\ userDocs' = userDocs \cup {[id |-> g, email |-> EmailSetter(rg[g].body.email)]}
          /\ rg' = [rg EXCEPT ![g].pc = "done", ![g].status = 201,
                              ![g].msg = "User registered successfully"]
  /\ UNCHANGED <<products, orders, intents, ao, wh, dl, cp, pu, rv, dp>>

\* ------------------------------------------------------------------ system
Webhooks == {"w1", "w2"}
Delivers == {"d1"}
Intents == {"c1"}
Updates == {"u1", "u2"}
ReviewReqs == {"v1", "v2"}
Registrations == {"g1", "g2"}
Deletes == {"x1"}

Init ==
  /\ products = [p \in ProductIds |->
                   [user |-> ProductOwner[p], price |-> InitPrice[p],
                    countInStock |-> InitStock[p],
                    reviews |-> <<>>, rating |-> NoRating, numReviews |-> 0]]
  /\ orders = <<>>
  /\ intents = {}
  /\ ao = [r \in OrderReqs |-> IdleOrderReq]
  /\ wh = [w \in Webhooks |-> IdleWebhook]
  /\ dl = [d \in Delivers |-> IdleDeliver]
  /\ cp = [c \in Intents |-> IdleIntent]
  /\ pu = [u \in Updates |-> IdleUpdate]
  /\ userDocs = {[id |-> u, email |-> EmailOf[u]] : u \in Users}
  /\ rv = [v \in ReviewReqs |-> IdleReview]
  /\ rg = [g \in Registrations |-> IdleRegister]
  /\ dp = [x \in Deletes |-> IdleDelete]

\* Order placement: two requests racing for the stock.
Next ==
  \/ \E r \in OrderReqs : AOStart(r, CartsOf[r])
  \/ \E r \in OrderReqs : AOFind(r)
  \/ \E r \in OrderReqs : AOBulkOp(r)
  \/ \E r \in OrderReqs : AOSave(r)
  \/ \E r \in OrderReqs : AOEmail(r)

Spec == Init /\ [][Next]_vars

\* Settlement: orders are placed, and a webhook call arrives.
NextPay ==
  \/ \E r \in OrderReqs : AOStart(r, PayCarts)
  \/ \E r \in OrderReqs : AOFind(r)
  \/ \E r \in OrderReqs : AOBulkOp(r)
  \/ \E r \in OrderReqs : AOSave(r)
  \/ \E r \in OrderReqs : AOEmail(r)
  \/ WHReject("w1")
  \/ WHAccept("w1", Events)
  \/ WHFind("w1")
  \/ WHSave("w1")
  \/ WHEmail("w1")

SpecPay == Init /\ [][NextPay]_vars

\* Redelivery: one order is placed, and two webhook calls arrive.
NextTwice ==
  \/ AOStart("r1", PayCarts)
  \/ AOFind("r1")
  \/ AOBulkOp("r1")
  \/ AOSave("r1")
  \/ AOEmail("r1")
  \/ \E w \in Webhooks : WHReject(w)
  \/ \E w \in Webhooks : WHAccept(w, Events)
  \/ \E w \in Webhooks : WHFind(w)
  \/ \E w \in Webhooks : WHSave(w)
  \/ \E w \in Webhooks : WHEmail(w)

SpecTwice == Init /\ [][NextTwice]_vars

\* Every operation that touches an order or a product, one request of each,
\* all about the one order and the product it holds.
AllEvents == {e \in Succeeded : e.orderId = 1}
NextAll ==
  \/ AOStart("r1", PayCarts)
  \/ AOFind("r1")
  \/ AOBulkOp("r1")
  \/ AOSave("r1")
  \/ AOEmail("r1")
  \/ WHReject("w1")
  \/ WHAccept("w1", AllEvents)
  \/ WHFind("w1")
  \/ WHSave("w1")
  \/ WHEmail("w1")
  \/ DLStart("d1", {"bob", "root"}, {1})
  \/ DLFind("d1")
  \/ DLSave("d1")
  \/ DLEmail("d1")
  \/ CPStart("c1", {"alice", "bob"}, {1}, {[amount |-> 0]})
  \/ CPFind("c1")
  \/ CPCreate("c1")
  \/ PUStart("u1", {"alice", "bob"}, {"p1"}, {2500}, {0, MaxStock})
  \/ PUFind("u1")
  \/ PUSave("u1")

SpecAll == Init /\ [][NextAll]_vars

\* Payment intents: two orders of different totals are placed, and a request
\* for a payment intent arrives, for either order, for none, for a missing one.
IntentCarts == {<<[product |-> "p1", quantity |-> 1]>>, <<[product |-> "p2", quantity |-> 1]>>}
IntentOrderIds == 0..Cardinality(OrderReqs) + 1
NextIntent ==
  \/ \E r \in OrderReqs : AOStart(r, IntentCarts)
  \/ \E r \in OrderReqs : AOFind(r)
  \/ \E r \in OrderReqs : AOBulkOp(r)
  \/ \E r \in OrderReqs : AOSave(r)
  \/ \E r \in OrderReqs : AOEmail(r)
  \/ CPStart("c1", {"alice", "bob"}, IntentOrderIds, IntentBodies)
  \/ CPFind("c1")
  \/ CPCreate("c1")

SpecIntent == Init /\ [][NextIntent]_vars

\* Product edits: two PUT requests, by the owner, the admin or another user.
NextProduct ==
  \/ \E u \in Updates : PUStart(u, Users, ProductIds \cup {NoProduct}, {Absent, 0, 2500}, {Absent, 0, MaxStock})
  \/ \E u \in Updates : PUFind(u)
  \/ \E u \in Updates : PUSave(u)

SpecProduct == Init /\ [][NextProduct]_vars

\* Reviews: two guarded review requests about one product.
NextReview ==
  \/ \E v \in ReviewReqs : RVProtect(v, Tokens, {"p1", NoProduct})
  \/ \E v \in ReviewReqs : RVLookup(v)
  \/ \E v \in ReviewReqs : RVFind(v)
  \/ \E v \in ReviewReqs : RVSave(v)

SpecReview == Init /\ [][NextReview]_vars

\* Registration: two requests.
NextAuth ==
  \/ \E g \in Registrations : RGStart(g, BodyEmails, BodyPasswords)
  \/ \E g \in Registrations : RGFind(g)
  \/ \E g \in Registrations : RGCreate(g)

SpecAuth == Init /\ [][NextAuth]_vars

\* The life of one order: it is placed, charged, settled and delivered, while
\* the product it holds is edited and deleted.
FrameEvents == {e \in Succeeded : e.orderId = 1 /\ e.receipt_email = None}
NextFrame ==
  \/ AOStart("r1", PayCarts)
  \/ AOFind("r1")
  \/ AOBulkOp("r1")
  \/ AOSave("r1")
  \/ AOEmail("r1")
  \/ WHAccept("w1", FrameEvents)
  \/ WHFind("w1")
  \/ WHSave("w1")
  \/ WHEmail("w1")
  \/ DLStart("d1", {"root"}, {1})
  \/ DLFind("d1")
  \/ DLSave("d1")
  \/ DLEmail("d1")
  \/ CPStart("c1", {"alice"}, {1}, {[amount |-> 0]})
  \/ CPFind("c1")
  \/ CPCreate("c1")
  \/ PUStart("u1", {"alice"}, {"p1"}, {2500}, {Absent})
  \/ PUFind("u1")
  \/ PUSave("u1")
  \/ DPStart("x1", {"root"}, {"p1"})
  \/ DPFind("x1")
  \/ DPDelete("x1")

SpecFrame == Init /\ [][NextFrame]_vars

\* Order placement with carts of one line whose quantity may be zero or
\* negative: the body's quantity is a number that nothing constrains.
SignedQuantities == {-1, 0, 1}
SignedCarts == {<<[product |-> p, quantity |-> q]>> : p \in ProductIds, q \in SignedQuantities}
NextQty ==
  \/ \E r \in OrderReqs : AOStart(r, SignedCarts)
  \/ \E r \in OrderReqs : AOFind(r)
  \/ \E r \in OrderReqs : AOBulkOp(r)
  \/ \E r \in OrderReqs : AOSave(r)
  \/ \E r \in OrderReqs : AOEmail(r)

SpecQty == Init /\ [][NextQty]_vars

\* ================================================================ properties

\* ------------------------------------------------------------------- C1
BadLine(line) ==
  \/ line.product \notin ProductIds
  \/ products[line.product].countInStock < line.quantity

\* C1: when Product.find answers a request whose cart has a line for a product
\* that does not exist, or for more than the product's stock at that moment,
\* the request ends there with 404 or 400, no stock and no order is written,
\* and a finished request writes nothing more.
C1_NoPartialOrder ==
  [][\A r \in OrderReqs :
       /\ (/\ ao[r].pc = "find"
           /\ ao'[r].pc # "find"
           /\ \E i \in 1..Len(ao[r].cart) : BadLine(ao[r].cart[i]))
          => /\ ao'[r].pc = "done"
             /\ ao'[r].status \in {400, 404}
             /\ ao'[r].msg \in {"out of stock", "not found"}
             /\ ao'[r].bulkIdx = 0
             /\ ao'[r].order = 0
             /\ products' = products
             /\ orders' = orders
       /\ ao[r].pc = "done" => ao'[r] = ao[r]]_vars

\* A two-line cart refused for its second line although the first line was fine.
C1_Witness ==
  \E r \in OrderReqs :
    /\ ao[r].pc = "done"
    /\ ao[r].status = 400
    /\ ao[r].msg = "out of stock"
    /\ Len(ao[r].cart) = 2
    /\ ao[r].cart[1].product \in DOMAIN ao[r].seen
    /\ ao[r].seen[ao[r].cart[1].product].countInStock >= ao[r].cart[1].quantity
    /\ ao[r].cart[2].product # ao[r].cart[1].product

\* ------------------------------------------------------------------- C2
\* The quantity of product p on the lines 1..n of a cart.
RECURSIVE QtyOf(_, _, _)
QtyOf(cart, n, p) ==
  IF n = 0 THEN 0
  ELSE QtyOf(cart, n - 1, p) + (IF cart[n].product = p THEN cart[n].quantity ELSE 0)

\* The lines of its cart whose stock update the store has applied.
AppliedLines(r) == IF ao[r].bulkIdx = 0 THEN 0 ELSE ao[r].bulkIdx - 1

RECURSIVE SumOver(_, _)
SumOver(S, f) ==
  IF S = {} THEN 0 ELSE LET x == CHOOSE y \in S : TRUE IN f[x] + SumOver(S \ {x}, f)

\* C2: the stock of every product is its initial stock less the quantities of
\* the cart lines applied so far, and a request that has got past the bulk
\* write (so every request answered 201) has had every line of its cart
\* applied: each product lost exactly the quantity ordered, the others nothing.
C2_StockDecreasesByQuantity ==
  /\ \A p \in ProductIds :
        products[p].countInStock =
          InitStock[p] - SumOver(OrderReqs,
                                 [r \in OrderReqs |-> QtyOf(ao[r].cart, AppliedLines(r), p)])
  /\ \A r \in OrderReqs :
        (ao[r].pc \in {"save", "email"} \/ ao[r].status \in {201, 500})
          => AppliedLines(r) = Len(ao[r].cart)

C2_Witness ==
  \E r \in OrderReqs :
    /\ ao[r].status = 201
    /\ ao[r].cart[1].quantity = 2
    /\ products[ao[r].cart[1].product].countInStock = InitStock[ao[r].cart[1].product] - 2
    /\ \E p \in ProductIds : products[p].countInStock = InitStock[p]

\* ------------------------------------------------------------------- C3
NoRepeatedProduct(cart) ==
  \A i, j \in 1..Len(cart) : cart[i].product = cart[j].product => i = j

\* C3: no product's stock is ever negative.  The claim is stated for the
\* requests whose carts name every product once, so that what refutes it is
\* the interleaving of two requests that it names.
C3_StockNeverNegative ==
  (\A r \in OrderReqs : NoRepeatedProduct(ao[r].cart))
    => \A p \in ProductIds : products[p].countInStock >= 0

\* ------------------------------------------------------------------- C4
RECURSIVE CartValue(_, _, _)
CartValue(cart, n, seen) ==
  IF n = 0 THEN 0
  ELSE CartValue(cart, n - 1, seen) + seen[cart[n].product].price * cart[n].quantity

\* C4: an order's itemsPrice is the sum of store price x quantity over the
\* lines of its cart, its taxPrice is a tenth of that to the nearest cent, its
\* shippingPrice is 0 above 100.00 and 10.00 up to and including 100.00, and
\* its totalPrice is the sum of the three.
C4_PriceFormula ==
  \A r \in OrderReqs :
    ao[r].order # 0 =>
      LET o == orders[ao[r].order] IN
        /\ o.itemsPrice = CartValue(ao[r].cart, Len(ao[r].cart), ao[r].seen)
        /\ 10 * o.taxPrice - o.itemsPrice \in -5..5
        /\ (o.shippingPrice = 0) <=> (o.itemsPrice > 10000)
        /\ o.shippingPrice \in {0, 1000}
        /\ o.totalPrice = o.itemsPrice + o.taxPrice + o.shippingPrice

\* An order of exactly 100.00 that pays the shipping, one that rounds the tax.
C4_Witness ==
  /\ \E o \in 1..Len(orders) : orders[o].itemsPrice = 10000 /\ orders[o].shippingPrice = 1000
  /\ \E o \in 1..Len(orders) : orders[o].itemsPrice = 16 /\ orders[o].taxPrice = 2

\* ------------------------------------------------------------------- C5
SameCart(r1, r2) ==
  /\ ao[r1].cart = ao[r2].cart
  /\ \A p \in DOMAIN ao[r1].seen : ao[r1].seen[p].price = ao[r2].seen[p].price

PriceFields(o) ==
  <<o.orderItems, o.itemsPrice, o.taxPrice, o.shippingPrice, o.totalPrice>>

\* C5: two orders placed for the same lines at the same store prices carry the
\* same line prices and the same four price fields, whatever price or total
\* the two request bodies carried.
C5_PricesIgnoreBody ==
  \A r1, r2 \in OrderReqs :
    (ao[r1].order # 0 /\ ao[r2].order # 0 /\ SameCart(r1, r2))
      => PriceFields(orders[ao[r1].order]) = PriceFields(orders[ao[r2].order])

C5_Witness ==
  \E r1, r2 \in OrderReqs :
    /\ ao[r1].order # 0
    /\ ao[r2].order # 0
    /\ ao[r1].order # ao[r2].order
    /\ SameCart(r1, r2)
    /\ ao[r1].forged.price # ao[r2].forged.price
\* ------------------------------------------------------------------- C6
WebhookPays(w, o) ==
  /\ wh[w].pc = "save"
  /\ wh'[w].pc = "email"
  /\ wh[w].verified
  /\ wh[w].event.type = "payment_intent.succeeded"
  /\ wh[w].event.orderId = o

\* C6: an order enters the ledger with isPaid false; the isPaid of an order
\* changes only from false to true, and only in the step in which a verified
\* payment_intent.succeeded webhook naming that order saves it; orders are
\* never removed.
C6_PaidOnlyByWebhook ==
  [][/\ Len(orders') >= Len(orders)
     /\ \A o \in 1..Len(orders') :
          IF o > Len(orders)
          THEN ~orders'[o].isPaid
          ELSE orders'[o].isPaid # orders[o].isPaid
                 => /\ ~orders[o].isPaid
                    /\ orders'[o].isPaid
                    /\ \E w \in Webhooks : WebhookPays(w, o)]_vars

\* An order placed with isPaid in its body, then paid, delivered and with a
\* payment intent, while its product was updated.
C6_Witness ==
  /\ ao["r1"].forged.isPaid
  /\ Len(orders) = 1
  /\ orders[1].isPaid
  /\ orders[1].isDelivered
  /\ intents # {}
  /\ pu["u1"].status = 200
  /\ wh["w1"].paidAt # NoDate
  /\ dl["d1"].loaded.isPaid = FALSE

\* ------------------------------------------------------------------- C7
\* C7: every step of a webhook call whose signature did not verify is its
\* answer 400, and leaves the orders, the products and the provider alone.
C7_BadSignatureNoChange ==
  [][\A w \in Webhooks :
       (wh'[w] # wh[w] /\ ~wh'[w].verified)
         => /\ wh'[w].pc = "done"
            /\ wh'[w].status = 400
            /\ UNCHANGED <<orders, products, intents>>]_vars

C7_Witness ==
  \E w \in Webhooks :
    /\ wh[w].pc = "done"
    /\ ~wh[w].verified
    /\ wh[w].status = 400
    /\ Len(orders) >= 1
    /\ ~orders[1].isPaid

\* ------------------------------------------------------------------- C8
\* C8: the save of a verified payment_intent.succeeded webhook leaves its
\* order paid, with a paidAt, with a payment result made of the provider's
\* transaction id and status and of the provider's receipt email or, when
\* there is none, the email of the order's owner; every other order is as it
\* was.
C8_WebhookMarksPaid ==
  [][\A w \in Webhooks :
       (wh[w].pc = "save" /\ wh'[w].pc = "email")
         => LET e == wh[w].event
                o == e.orderId
            IN /\ wh[w].verified
               /\ Len(orders') = Len(orders)
               /\ orders'[o].isPaid
               /\ orders'[o].paidAt \in Times
               /\ orders'[o].paymentResult =
                    [id |-> e.id, status |-> e.status,
                     email_address |-> IF e.receipt_email # None
                                       THEN e.receipt_email
                                       ELSE EmailOf[orders[o].user]]
               /\ \A o2 \in 1..Len(orders) : o2 # o => orders'[o2] = orders[o2]]_vars

\* Of two orders the second was paid, by an event without a receipt email.
C8_Witness ==
  \E w \in Webhooks :
    /\ wh[w].outcome = "paid"
    /\ wh[w].event.receipt_email = None
    /\ wh[w].event.orderId = 2
    /\ Len(orders) = 2
    /\ orders[2].isPaid
    /\ orders[2].paymentResult.email_address = EmailOf[orders[2].user]
    /\ ~orders[1].isPaid

\* ------------------------------------------------------------------- C9
SameDelivery(w1, w2) ==
  /\ w1 # w2
  /\ wh[w1].verified
  /\ wh[w2].verified
  /\ wh[w1].event = wh[w2].event
  /\ wh[w1].event.type = "payment_intent.succeeded"

\* C9: when one event is delivered twice, from the moment either delivery has
\* saved the order on, the order is paid and has a paidAt, wherever the other
\* delivery stands, and the other delivery is answered 200.
C9_RedeliveryKeepsPaid ==
  \A w1, w2 \in Webhooks :
    (SameDelivery(w1, w2) /\ wh[w1].outcome = "paid")
      => /\ orders[wh[w1].event.orderId].isPaid
         /\ orders[wh[w1].event.orderId].paidAt \in Times
         /\ wh[w2].pc = "done" => wh[w2].status = 200

\* Both deliveries have saved the order, the second one after the first.
C9_Witness ==
  \E w1, w2 \in Webhooks :
    /\ SameDelivery(w1, w2)
    /\ wh[w1].pc = "done"
    /\ wh[w2].pc = "done"
    /\ wh[w1].outcome = "paid"
    /\ wh[w2].outcome = "paid"
    /\ wh[w2].loaded.isPaid

\* ------------------------------------------------------------------ C10
\* Every await of the handler settles.
WHStep(w) == WHFind(w) \/ WHSave(w) \/ WHEmail(w)

FairPay == SpecPay /\ \A w \in Webhooks : WF_vars(WHStep(w))

\* C10: a webhook call whose signature verified is answered, and answered 200.
C10_VerifiedIsAcknowledged ==
  \A w \in Webhooks : wh[w].verified ~> (wh[w].pc = "done" /\ wh[w].status = 200)

\* Calls acknowledged after a failed save, for a missing order, without effect.
C10_Witness ==
  \E w \in Webhooks :
    /\ wh[w].verified
    /\ wh[w].pc = "done"
    /\ wh[w].status = 200
    /\ wh[w].outcome = "store error"
    /\ wh[w].paidAt # NoDate
\* ------------------------------------------------------------------ C11
\* C11: every payment intent at the provider carries, as its amount, the
\* stored totalPrice of the order its metadata names, in cents, and a request
\* answered 200 has created the intent of the order it named with that amount,
\* whatever amount its body carried.
C11_ChargesPersistedTotal ==
  /\ \A i \in intents :
       /\ i.orderId \in 1..Len(orders)
       /\ i.amount = orders[i.orderId].totalPrice
  /\ \A c \in Intents :
       cp[c].status = 200
         => [amount |-> orders[cp[c].orderId].totalPrice, orderId |-> cp[c].orderId] \in intents

\* An intent for the second order, asked for with another amount in the body.
C11_Witness ==
  \E c \in Intents :
    /\ cp[c].status = 200
    /\ cp[c].orderId = 2
    /\ cp[c].body.amount # 0
    /\ cp[c].body.amount # orders[2].totalPrice
    /\ orders[1].totalPrice # orders[2].totalPrice
    /\ intents = {[amount |-> orders[2].totalPrice, orderId |-> 2]}

\* ------------------------------------------------------------------ C12
\* C12: when findById answers a payment-intent request, a request naming no
\* stored order ends with 404 "Order not found", and a request naming an order
\* of another user ends with the refusal of the non-entitled caller, 401 "Not
\* authorized to pay for this order"; a request so refused creates no intent
\* and writes no order, then or later.
C12_RefusedIntentNoEffect ==
  [][\A c \in Intents :
       /\ (cp[c].pc = "find" /\ cp'[c] # cp[c])
            => IF cp[c].orderId \notin 1..Len(orders)
               THEN cp'[c].pc = "done" /\ cp'[c].status = 404 /\ cp'[c].msg = "Order not found"
               ELSE orders[cp[c].orderId].user # cp[c].actor
                      => /\ cp'[c].pc = "done"
                         /\ cp'[c].status = 401
                         /\ cp'[c].msg = "Not authorized to pay for this order"
       /\ (cp'[c] # cp[c] /\ cp'[c].status \in {401, 404})
            => UNCHANGED <<orders, intents>>
       /\ cp[c].pc = "done" => cp'[c] = cp[c]]_vars

\* The order of another user was asked for and refused; no intent exists.
C12_Witness ==
  \E c \in Intents :
    /\ cp[c].pc = "done"
    /\ cp[c].status = 401
    /\ cp[c].orderId \in 1..Len(orders)
    /\ orders[cp[c].orderId].user # cp[c].actor
    /\ intents = {}

\* ------------------------------------------------------------------ C13
DeliverSaves(d, o) ==
  /\ dl[d].pc = "save"
  /\ dl'[d].pc = "email"
  /\ dl[d].orderId = o
  /\ IsAdmin[dl[d].actor]

\* C13: an order enters the ledger with isDelivered false; the isDelivered of
\* an order changes only from false to true, and only in the step in which the
\* deliver request of an admin saves that order; every step of a deliver
\* request of a user who is no admin is its answer 401, and writes no order.
C13_DeliveredOnlyByAdmin ==
  [][/\ \A o \in 1..Len(orders') :
          IF o > Len(orders)
          THEN ~orders'[o].isDelivered
          ELSE orders'[o].isDelivered # orders[o].isDelivered
                 => /\ ~orders[o].isDelivered
                    /\ orders'[o].isDelivered
                    /\ \E d \in Delivers : DeliverSaves(d, o)
     /\ \A d \in Delivers :
          (dl'[d] # dl[d] /\ ~IsAdmin[dl'[d].actor])
            => /\ dl'[d].pc = "done"
               /\ dl'[d].status = 401
               /\ orders' = orders]_vars

\* The admin's request delivered the order that the webhook had marked paid.
C13_Witness ==
  /\ Len(orders) = 1
  /\ orders[1].isDelivered
  /\ orders[1].deliveredAt \in Times
  /\ dl["d1"].actor = "root"
  /\ dl["d1"].status = 200
  /\ ~dl["d1"].loaded.isDelivered
  /\ dl["d1"].loaded.isPaid

\* ------------------------------------------------------------------ C14
\* C14: no product holds two reviews of one user.
C14_OneReviewPerUser ==
  \A p \in ProductIds :
    \A i, j \in 1..Len(products[p].reviews) :
      products[p].reviews[i].user = products[p].reviews[j].user => i = j

\* ------------------------------------------------------------------ C15
DistinctReviewers ==
  \A v1, v2 \in ReviewReqs :
    (v1 # v2 /\ rv[v1].actor # NoUser) => rv[v1].actor # rv[v2].actor

\* C15: each product's numReviews is the number of its reviews and its rating
\* is their arithmetic mean (0 without reviews).  The claim is stated for
\* requests of different users, so that what refutes it is the interleaving of
\* two users that it names.
C15_AggregatesMatchReviews ==
  DistinctReviewers =>
    \A p \in ProductIds :
      LET reviews == products[p].reviews IN
        /\ products[p].numReviews = Len(reviews)
        /\ products[p].rating.num * (IF Len(reviews) = 0 THEN 1 ELSE Len(reviews))
             = SumRatings(reviews, Len(reviews)) * products[p].rating.den

\* ------------------------------------------------------------------ C16
MayEdit(actor, p) == ProductOwner[p] = actor \/ actor = "root"

\* C16: when findById answers a PUT naming a product, the request of the
\* product's owner or of the admin goes on to save, and the request of anyone
\* else ends with the refusal of the non-entitled caller, 401 "Not authorized
\* to edit this product"; a product is written only by the save of such an
\* owner or admin, which leaves it with the price and the stock of the body,
\* and a refused request writes no product, then or later.
C16_EditOnlyByOwnerOrAdmin ==
  [][/\ \A u \in Updates :
          /\ (pu[u].pc = "find" /\ pu'[u] # pu[u] /\ pu[u].product \in ProductIds)
               => IF MayEdit(pu[u].actor, pu[u].product)
                  THEN pu'[u].pc = "save"
                  ELSE /\ pu'[u].pc = "done"
                       /\ pu'[u].status = 401
                       /\ pu'[u].msg = "Not authorized to edit this product"
                       /\ products' = products
          /\ (pu[u].pc = "save" /\ pu'[u] # pu[u])
               => /\ pu'[u].status = 200
                  /\ pu[u].body.price \notin {0, Absent}
                       => products'[pu[u].product].price = pu[u].body.price
                  /\ pu[u].body.countInStock \notin {0, Absent}
                       => products'[pu[u].product].countInStock = pu[u].body.countInStock
          /\ pu[u].pc = "done" => pu'[u] = pu[u]
     /\ products' # products
          => \E u \in Updates :
               /\ pu[u].pc = "save"
               /\ pu'[u] # pu[u]
               /\ MayEdit(pu[u].actor, pu[u].product)
               /\ \A p \in ProductIds : p # pu[u].product => products'[p] = products[p]]_vars

\* One product, not the admin's: the admin's PUT was applied, that of a user
\* who does not own it was refused.
C16_Witness ==
  \E u1, u2 \in Updates, p \in ProductIds :
    /\ pu[u1].product = p
    /\ pu[u2].product = p
    /\ pu[u1].actor = "root"
    /\ ProductOwner[p] # "root"
    /\ pu[u1].status = 200
    /\ pu[u1].body.price \notin {0, Absent}
    /\ products[p].price = pu[u1].body.price
    /\ pu[u2].actor \notin {"root", ProductOwner[p]}
    /\ pu[u2].status = 401

\* ------------------------------------------------------------------ C17
HasUser(token) == token.kind = "signed" /\ \E u \in userDocs : u.id = token.id

\* C17: the handler behind the guard has run only for a request whose token
\* verified and names a user document, which is then the request's user; a
\* finished request with any other token was answered 401.
C17_GuardedHandlerHasUser ==
  \A v \in ReviewReqs :
    /\ rv[v].ran => HasUser(rv[v].token) /\ rv[v].actor = rv[v].token.id
    /\ (rv[v].pc = "done" /\ ~HasUser(rv[v].token)) => rv[v].status = 401

\* ------------------------------------------------------------------ C18
OnFile(email) == \E u \in userDocs : Lower(u.email) = Lower(email)

\* C18: no two user documents have the same email up to the case of its
\* letters; a registration whose email, up to case, is on file when findOne
\* answers ends with 400 "User already exists"; a user document is inserted
\* only by the create of a request whose email was not on file, and no
\* document is ever removed.
C18_UniqueEmail ==
  /\ [](\A u1, u2 \in userDocs : Lower(u1.email) = Lower(u2.email) => u1 = u2)
  /\ [][/\ \A g \in Registrations :
             (rg[g].pc = "find" /\ rg'[g] # rg[g]
                /\ rg[g].body.email # None /\ OnFile(rg[g].body.email))
               => /\ rg'[g].pc = "done"
                  /\ rg'[g].status = 400
                  /\ rg'[g].msg = "User already exists"
                  /\ userDocs' = userDocs
        /\ userDocs \subseteq userDocs'
        /\ userDocs' # userDocs
             => \E g \in Registrations :
                  /\ rg[g].pc = "create"
                  /\ rg'[g].status = 201
                  /\ ~OnFile(rg[g].body.email)
                  /\ userDocs' = userDocs \cup {[id |-> g, email |-> Lower(rg[g].body.email)]}]_vars

\* Two registrations of one email in two spellings interleaved: one made the
\* user, the other was stopped by the store.
C18_Witness ==
  \E g1, g2 \in Registrations :
    /\ rg[g1].body.email # rg[g2].body.email
    /\ Lower(rg[g1].body.email) = Lower(rg[g2].body.email)
    /\ rg[g1].status = 201
    /\ rg[g2].status = 500
    /\ rg[g2].msg = "duplicate key"
    /\ Cardinality({u \in userDocs : u.email = Lower(rg[g1].body.email)}) = 1

\* ------------------------------------------------------------------ C19
\* C19: a finished registration whose body had no email or no password was
\* answered 400 and made no user.
C19_MissingFieldIsClientError ==
  \A g \in Registrations :
    (rg[g].pc = "done" /\ (rg[g].body.email = None \/ rg[g].body.password = None))
      => /\ rg[g].status = 400
         /\ \A u \in userDocs : u.id # g

\* ------------------------------------------------------------------ C20
\* C20: the step in which the confirmation email resolves or rejects answers
\* the request 201 and writes nothing: the order stays in the ledger and the
\* stock stays as the bulk write left it; an answered request writes nothing.
C20_EmailFailureKeepsOrder ==
  [][\A r \in OrderReqs :
       /\ (ao[r].pc = "email" /\ ao'[r] # ao[r])
            => /\ ao'[r].pc = "done"
               /\ ao'[r].status = 201
               /\ ao[r].order \in 1..Len(orders')
               /\ orders' = orders
               /\ products' = products
       /\ (ao[r].pc = "done" /\ ao[r].order # 0)
            => /\ ao'[r] = ao[r]
               /\ orders'[ao[r].order] = orders[ao[r].order]]_vars

\* The email of an order for two units failed: 201, the order, the stock less two.
C20_Witness ==
  \E r \in OrderReqs :
    /\ ao[r].pc = "done"
    /\ ao[r].order # 0
    /\ ao[r].mailed = None
    /\ ao[r].status = 201
    /\ orders[ao[r].order].user = ReqUser[r]
    /\ ao[r].cart = <<[product |-> "p1", quantity |-> 2]>>
    /\ products["p1"].countInStock = InitStock["p1"] - 2

\* ------------------------------------------------------------------ C21
\* C21: the delivery email of an order goes to the address of the user who
\* owns the order.
C21_DeliveryMailToOwner ==
  \A d \in Delivers :
    dl[d].mailed # None => dl[d].mailed = EmailOf[orders[dl[d].orderId].user]

\* ------------------------------------------------------------------ C22
\* C22: no step removes an order, or changes the line items, the itemsPrice,
\* the taxPrice, the shippingPrice or the totalPrice of an order in the
\* ledger, and the totalPrice of an order is the sum of the other three.
C22_OrderSnapshotFrozen ==
  /\ [](\A o \in 1..Len(orders) :
          orders[o].totalPrice
            = orders[o].itemsPrice + orders[o].taxPrice + orders[o].shippingPrice)
  /\ [][/\ Len(orders') >= Len(orders)
        /\ \A o \in 1..Len(orders) : PriceFields(orders'[o]) = PriceFields(orders[o])]_vars

\* The order was charged, settled and delivered, its product was repriced and
\* then deleted, and its line still carries the price of the day it was placed.
C22_Witness ==
  /\ Len(orders) = 1
  /\ orders[1].isPaid
  /\ orders[1].isDelivered
  /\ intents # {}
  /\ pu["u1"].status = 200
  /\ dp["x1"].status = 200
  /\ "p1" \notin DOMAIN products
  /\ wh["w1"].loaded.orderItems[1].price = InitPrice["p1"]
  /\ orders[1].orderItems[1].price = InitPrice["p1"]
  /\ orders[1].orderItems[1].price # pu["u1"].body.price

\* ------------------------------------------------------------------ C23
\* C23: a request has had a stock decrement applied only once its order is in
\* the ledger.
C23_OrderBeforeStock ==
  \A r \in OrderReqs : AppliedLines(r) > 0 => ao[r].order # 0

\* ------------------------------------------------------------------ C24
\* C24: the stock of a product changes only in a step of the bulk write of an
\* order request.
C24_StockOnlyByBulkWrite ==
  [][\A p \in ProductIds :
       products'[p].countInStock # products[p].countInStock
         => \E r \in OrderReqs : ao[r].pc = "bulk" /\ ao'[r] # ao[r]]_vars

\* ------------------------------------------------------------------ C25
\* C25: the save of a PUT answered 200 leaves the product with the price and
\* the stock of the body, 0 included, and a field that the body does not carry
\* as it was.
C25_PutSetsSuppliedFields ==
  [][\A u \in Updates :
       (pu[u].pc = "save" /\ pu'[u].status = 200)
         => LET p == pu[u].product IN
              /\ products'[p].price
                   = IF pu[u].body.price = Absent THEN products[p].price
                     ELSE pu[u].body.price
              /\ products'[p].countInStock
                   = IF pu[u].body.countInStock = Absent THEN products[p].countInStock
                     ELSE pu[u].body.countInStock]_vars

\* ------------------------------------------------------------------ C26
\* C26: a request answered with anything but 201 has had no stock decrement
\* applied.
C26_ErrorLeavesStock ==
  \A r \in OrderReqs :
    (ao[r].pc = "done" /\ ao[r].status # 201) => AppliedLines(r) = 0

\* ------------------------------------------------------------------ C27
\* C27: a cart that got past the validation asks, over all its lines, for no
\* more of any product than the stock that Product.find reported.
C27_CartCheckedAsAWhole ==
  \A r \in OrderReqs :
    ao[r].pc \in {"bulk", "save", "email"} \/ ao[r].status \in {201, 500}
      => \A p \in DOMAIN ao[r].seen :
           QtyOf(ao[r].cart, Len(ao[r].cart), p) <= ao[r].seen[p].countInStock

\* ------------------------------------------------------------------ C28
\* C28: no product's stock exceeds its initial stock, no order in the ledger
\* has a negative itemsPrice or totalPrice, and a finished request whose cart
\* has a line of quantity zero or less was answered 400 with no stock update
\* and no order.
C28_NoStockIncrease ==
  /\ \A p \in ProductIds : products[p].countInStock <= InitStock[p]
  /\ \A o \in 1..Len(orders) : orders[o].itemsPrice >= 0 /\ orders[o].totalPrice >= 0
  /\ \A r \in OrderReqs :
       (ao[r].pc = "done" /\ \E i \in 1..Len(ao[r].cart) : ao[r].cart[i].quantity <= 0)
         => ao[r].status = 400 /\ ao[r].bulkIdx = 0 /\ ao[r].order = 0

\* ------------------------------------------------------------------ C29
DeliverSaved(d) == dl[d].pc = "email" \/ (dl[d].pc = "done" /\ dl[d].status = 200)

\* C29: once a webhook call and a deliver request for one order have both
\* saved it, in either order and whatever each had loaded, the order is paid
\* since the webhook's paidAt and delivered since the request's deliveredAt.
C29_BothFlagsSurvive ==
  \A w \in Webhooks, d \in Delivers :
    (wh[w].outcome = "paid" /\ DeliverSaved(d) /\ dl[d].orderId = wh[w].event.orderId)
      => LET o == orders[dl[d].orderId] IN
           /\ o.isPaid
           /\ o.isDelivered
           /\ o.paidAt = wh[w].paidAt
           /\ o.deliveredAt = dl[d].deliveredAt

\* Each of the two loaded the order before the other saved it.
C29_Witness ==
  \E w \in Webhooks, d \in Delivers :
    /\ wh[w].pc = "done"
    /\ wh[w].outcome = "paid"
    /\ dl[d].pc = "done"
    /\ dl[d].status = 200
    /\ dl[d].orderId = wh[w].event.orderId
    /\ ~wh[w].loaded.isDelivered
    /\ ~dl[d].loaded.isPaid
    /\ orders[dl[d].orderId].isPaid
    /\ orders[dl[d].orderId].isDelivered

\* ------------------------------------------------------------------ C30
\* C30: a payment-intent request that loads an order already paid does not go
\* on to create an intent.
C30_NoIntentForPaidOrder ==
  [][\A c \in Intents :
       (cp[c].pc = "find" /\ cp'[c].pc = "create") => ~orders[cp[c].orderId].isPaid]_vars
====
